---- MODULE Spec2Model ----
(***************************************************************************)
(* Indicator computation engine of chat-trade (src/indicators/calc.py and  *)
(* the copies of the same engines in src/app.py).                          *)
(*                                                                         *)
(* A pandas float is modelled as an extended rational <<n, d>>:            *)
(*   d > 0  : the finite number n/d in lowest terms,                       *)
(*   <<0,0>>: NaN (the "undefined" of the specification),                  *)
(*   <<1,0>> and <<-1,0>>: +inf and -inf, the results of x/0 for x # 0.    *)
(* Arithmetic on finite values is exact; the special values follow the     *)
(* IEEE rules pandas inherits from numpy.  A pandas Series is a TLA+       *)
(* sequence, so position i of the source is element i+1 of the model.      *)
(***************************************************************************)
EXTENDS Integers, Sequences, FiniteSets, TLC

(* ---- bounds of the model ---- *)
MaxLen == 4        \* longest close series
MaxBars == 3       \* longest bar series (DataFrame rows)
MaxWindow == 3     \* windows, spans and periods range over 1..MaxWindow
MaxK == 2          \* Bollinger multipliers range over -1..MaxK
SqrtScale == 100   \* the square root is rounded down to a multiple of 1/SqrtScale
MaxChartBars == 2  \* longest bar series the chart callback fetches
MaxKeys == 2       \* longest list of indicator keys
MaxCrossBars == 4  \* longest bar series searched for repeated crossover events

(* ---- the parameters the chart callback passes ---- *)
Sma50Window == 50    \* calculate_sma(df['Close'], 50)
Sma200Window == 200  \* calculate_sma(df['Close'], 200)
Ema50Window == 50    \* calculate_ema(df['Close'], 50)
Ema200Window == 200  \* calculate_ema(df['Close'], 200)
Sma9Window == 9      \* calculate_sma(df['Close'], 9), drawn with the VWAP
RsiWindow == 14      \* default of calculate_rsi
MacdFast == 12       \* defaults of calculate_macd
MacdSlow == 26
MacdSignal == 9
BbWindow == 20       \* defaults of calculate_bollinger_bands
BbNumStd == 2
CrossSmaPeriod == 9  \* default of calculate_vwap_crossover

(* ---- extended rational arithmetic (numpy float64 semantics) ---- *)
Abs(x) == IF x < 0 THEN -x ELSE x

Sgn(x) == IF x < 0 THEN -1 ELSE IF x > 0 THEN 1 ELSE 0

RECURSIVE Gcd(_, _)
Gcd(a, b) == IF b = 0 THEN a ELSE Gcd(b, a % b)

NaN == <<0, 0>>

Inf(s) == <<s, 0>>

Norm(n, d) ==
    LET g == Gcd(Abs(n), d)
    IN  <<Sgn(n) * (Abs(n) \div g), d \div g>>

Num(x) == <<x, 1>>

IsNaN(a) == a = NaN

IsFinite(a) == a[2] > 0

\* a + b
FAdd(a, b) ==
    IF IsNaN(a) \/ IsNaN(b) THEN NaN
    ELSE IF ~IsFinite(a) THEN (IF ~IsFinite(b) /\ b # a THEN NaN ELSE a)
    ELSE IF ~IsFinite(b) THEN b
    ELSE LET g == Gcd(a[2], b[2])
             l == (a[2] \div g) * b[2]
         IN  Norm(a[1] * (l \div a[2]) + b[1] * (l \div b[2]), l)

FNeg(a) == <<-a[1], a[2]>>

\* a - b
FSub(a, b) == FAdd(a, FNeg(b))

\* a * b
FMul(a, b) ==
    IF IsNaN(a) \/ IsNaN(b) THEN NaN
    ELSE IF ~IsFinite(a) \/ ~IsFinite(b)
         THEN (IF a[1] = 0 \/ b[1] = 0 THEN NaN ELSE Inf(Sgn(a[1]) * Sgn(b[1])))
    ELSE LET g1 == Gcd(Abs(a[1]), b[2])
             g2 == Gcd(Abs(b[1]), a[2])
         IN  Norm((a[1] \div g1) * (b[1] \div g2), (a[2] \div g2) * (b[2] \div g1))

\* a / b : x/0 is +-inf for x # 0 and NaN for x = 0, no exception is raised
FDiv(a, b) ==
    IF IsNaN(a) \/ IsNaN(b) THEN NaN
    ELSE IF ~IsFinite(a) THEN (IF ~IsFinite(b) THEN NaN
                               ELSE Inf(a[1] * (IF b[1] < 0 THEN -1 ELSE 1)))
    ELSE IF ~IsFinite(b) THEN Num(0)
    ELSE IF b[1] = 0 THEN (IF a[1] = 0 THEN NaN ELSE Inf(Sgn(a[1])))
    ELSE FMul(a, <<Sgn(b[1]) * b[2], Abs(b[1])>>)

\* comparisons: every comparison with NaN is False
FLt(a, b) ==
    IF IsNaN(a) \/ IsNaN(b) THEN FALSE
    ELSE IF ~IsFinite(a) THEN a[1] < 0 /\ b # a
    ELSE IF ~IsFinite(b) THEN b[1] > 0
    ELSE a[1] * b[2] < b[1] * a[2]

FGt(a, b) == FLt(b, a)

FLe(a, b) == ~IsNaN(a) /\ ~IsNaN(b) /\ ~FLt(b, a)

FGe(a, b) == FLe(b, a)

RECURSIVE ISqrt(_, _, _)
ISqrt(lo, hi, x) ==
    IF lo >= hi THEN lo
    ELSE LET mid == (lo + hi + 1) \div 2
         IN  IF mid * mid <= x THEN ISqrt(mid, hi, x) ELSE ISqrt(lo, mid - 1, x)

\* numpy sqrt, to the resolution 1/SqrtScale; sqrt of a negative number is NaN
FSqrt(a) ==
    IF IsNaN(a) THEN NaN
    ELSE IF ~IsFinite(a) THEN (IF a[1] > 0 THEN a ELSE NaN)
    ELSE IF a[1] < 0 THEN NaN
    ELSE LET x == (a[1] * SqrtScale * SqrtScale) \div a[2]
         IN  Norm(ISqrt(0, x, x), SqrtScale)

(* ---- pandas Series operations used by the engines ---- *)
Zero == Num(0)

\* a Series holds its values in an array: the sequence of the values of f,
\* computed once
Series(f) == f \o <<>>

\* elementwise Series arithmetic (a + b, a - b, a * b, a / b, x * k, x / k)
SAdd(a, b) == Series([i \in 1..Len(a) |-> FAdd(a[i], b[i])])

SSub(a, b) == Series([i \in 1..Len(a) |-> FSub(a[i], b[i])])

SMul(a, b) == Series([i \in 1..Len(a) |-> FMul(a[i], b[i])])

SDiv(a, b) == Series([i \in 1..Len(a) |-> FDiv(a[i], b[i])])

SScale(a, k) == Series([i \in 1..Len(a) |-> FMul(a[i], k)])

\* Series.diff(): position 0 is NaN, position i is data[i] - data[i-1]
diff(data) == Series([i \in 1..Len(data) |-> IF i = 1 THEN NaN ELSE FSub(data[i], data[i - 1])])

\* Series.clip(lower=0): NaN stays NaN
clip_lower0(s) == Series([i \in 1..Len(s) |-> IF FLt(s[i], Zero) THEN Zero ELSE s[i]])

\* Series.clip(upper=0): NaN stays NaN
clip_upper0(s) == Series([i \in 1..Len(s) |-> IF FGt(s[i], Zero) THEN Zero ELSE s[i]])

\* Series.cumsum(): a NaN is skipped by the running sum and stays NaN in place
\* (CumTotal is the sequence of the running totals of the positions 1..i)
RECURSIVE CumTotal(_, _)
CumTotal(s, i) ==
    IF i = 0 THEN <<>>
    ELSE LET prev == CumTotal(s, i - 1)
             total == IF i = 1 THEN Zero ELSE prev[i - 1]
         IN  Append(prev, IF IsNaN(s[i]) THEN total ELSE FAdd(total, s[i]))

cumsum(s) ==
    LET totals == CumTotal(s, Len(s))
    IN  Series([i \in 1..Len(s) |-> IF IsNaN(s[i]) THEN NaN ELSE totals[i]])

\* rolling(window).mean(): pandas keeps a running sum and count, removing the
\* value that leaves the window and adding the one that enters it
\* (RollSum is the sequence of these states after the positions 1..i)
RECURSIVE RollSum(_, _, _)
RollSum(data, window, i) ==
    IF i = 0 THEN <<>>
    ELSE LET prev == RollSum(data, window, i - 1)
             p == IF i = 1 THEN [sum |-> Zero, nobs |-> 0] ELSE prev[i - 1]
             leaving == i - window
             r == IF leaving >= 1 /\ ~IsNaN(data[leaving])
                  THEN [sum |-> FSub(p.sum, data[leaving]), nobs |-> p.nobs - 1]
                  ELSE p
         IN  Append(prev, IF IsNaN(data[i]) THEN r
                          ELSE [sum |-> FAdd(r.sum, data[i]), nobs |-> r.nobs + 1])

\* slip: the window is clamped to the length of the series
rolling_mean_clamped(data, window) ==
    LET w == IF window > Len(data) THEN Len(data) ELSE window
        st == RollSum(data, w, Len(data))
    IN  Series([i \in 1..Len(data) |->
            IF st[i].nobs >= w /\ st[i].nobs > 0
            THEN FDiv(st[i].sum, Num(st[i].nobs)) ELSE NaN])

\* min_periods defaults to the window
rolling_mean(data, window) ==
    LET st == RollSum(data, window, Len(data))
    IN  Series([i \in 1..Len(data) |->
            IF st[i].nobs >= window /\ st[i].nobs > 0
            THEN FDiv(st[i].sum, Num(st[i].nobs)) ELSE NaN])

\* rolling(window).std(): Welford's running mean and sum of squared
\* differences, with the same remove-then-add order
VarRemove(st, val) ==
    IF IsNaN(val) THEN st
    ELSE IF st.nobs - 1 = 0 THEN [nobs |-> 0, mean |-> Zero, ssqdm |-> Zero]
    ELSE LET n == st.nobs - 1
             mean == FSub(st.mean, FDiv(FSub(val, st.mean), Num(n)))
         IN  [nobs |-> n, mean |-> mean,
              ssqdm |-> FSub(st.ssqdm, FMul(FSub(val, st.mean), FSub(val, mean)))]

VarAdd(st, val) ==
    IF IsNaN(val) THEN st
    ELSE LET n == st.nobs + 1
             mean == FAdd(st.mean, FDiv(FSub(val, st.mean), Num(n)))
         IN  [nobs |-> n, mean |-> mean,
              ssqdm |-> FAdd(st.ssqdm, FMul(FSub(val, st.mean), FSub(val, mean)))]

RECURSIVE RollVar(_, _, _)
RollVar(data, window, i) ==
    IF i = 0 THEN <<>>
    ELSE LET prev == RollVar(data, window, i - 1)
             p == IF i = 1 THEN [nobs |-> 0, mean |-> Zero, ssqdm |-> Zero] ELSE prev[i - 1]
             leaving == i - window
             r == IF leaving >= 1 THEN VarRemove(p, data[leaving]) ELSE p
         IN  Append(prev, VarAdd(r, data[i]))

\* sample variance (ddof = 1): NaN unless more than one observation
calc_var(st, minp) ==
    IF st.nobs >= minp /\ st.nobs > 1
    THEN LET v == FDiv(st.ssqdm, Num(st.nobs - 1))
         IN  IF FLt(v, Zero) THEN Zero ELSE v
    ELSE NaN

rolling_std(data, window) ==
    LET st == RollVar(data, window, Len(data))
    IN  Series([i \in 1..Len(data) |-> FSqrt(calc_var(st[i], window))])

\* ewm(alpha, adjust=False).mean(), min_periods = 0, ignore_na = False:
\* the running value is seeded with the first observation; before it the
\* output is NaN
\* (EwmState is the sequence of the running states after the positions 1..i)
RECURSIVE EwmState(_, _, _)
EwmState(vals, alpha, i) ==
    IF i = 0 THEN <<>>
    ELSE IF i = 1 THEN <<[weighted |-> vals[1], old_wt |-> Num(1)]>>
    ELSE LET prev == EwmState(vals, alpha, i - 1)
             p == prev[i - 1]
             cur == vals[i]
             ow == FMul(p.old_wt, FSub(Num(1), alpha))
         IN  Append(prev,
                IF ~IsNaN(p.weighted)
                THEN IF ~IsNaN(cur)
                     THEN [weighted |-> FDiv(FAdd(FMul(ow, p.weighted), FMul(alpha, cur)),
                                             FAdd(ow, alpha)),
                           old_wt |-> Num(1)]
                     ELSE [weighted |-> p.weighted, old_wt |-> ow]
                ELSE [weighted |-> cur, old_wt |-> p.old_wt])

ewm_mean(vals, alpha) ==
    LET st == EwmState(vals, alpha, Len(vals))
    IN  Series([i \in 1..Len(vals) |-> st[i].weighted])

\* ewm(span=...): alpha = 2 / (span + 1)
AlphaSpan(span) == FDiv(Num(2), Num(span + 1))

\* ewm(com=...): alpha = 1 / (1 + com)
AlphaCom(com) == FDiv(Num(1), Num(1 + com))

(* ---- the engines of src/indicators/calc.py ---- *)
\* slip: rolling(window, min_periods=1), the mean of what is available so far
calculate_sma_minp1(data, window) ==
    LET st == RollSum(data, window, Len(data))
    IN  Series([i \in 1..Len(data) |-> FDiv(st[i].sum, Num(st[i].nobs))])

calculate_sma(data, window) == rolling_mean(data, window)

\* slip: ewm(com=window), which smooths with alpha = 1 / (window + 1)
calculate_ema_com(data, window) == ewm_mean(data, AlphaCom(window))

calculate_ema(data, window) == ewm_mean(data, AlphaSpan(window))

\* the intermediate series of calculate_rsi
rsi_up(data) == clip_lower0(diff(data))

rsi_down(data) == SScale(clip_upper0(diff(data)), Num(-1))

roll_up(data, window) == ewm_mean(rsi_up(data), AlphaCom(window - 1))

roll_down(data, window) == ewm_mean(rsi_down(data), AlphaCom(window - 1))

\* slip: ewm(com=window), which smooths with alpha = 1 / (window + 1)
calculate_rsi_com(data, window) ==
    LET rs == SDiv(ewm_mean(rsi_up(data), AlphaCom(window)),
                   ewm_mean(rsi_down(data), AlphaCom(window)))
    IN  Series([i \in 1..Len(data) |->
            FSub(Num(100), FDiv(Num(100), FAdd(Num(1), rs[i])))])

\* rs = roll_up / roll_down; rsi = 100.0 - (100.0 / (1.0 + rs)).  Where
\* roll_down is zero the division gives an infinity (a NaN when roll_up is
\* zero as well); the sign of a float zero only changes the sign of that
\* infinity, and 100 / (+-inf) is zero either way.
calculate_rsi(data, window) ==
    LET rs == SDiv(roll_up(data, window), roll_down(data, window))
    IN  Series([i \in 1..Len(data) |->
            FSub(Num(100), FDiv(Num(100), FAdd(Num(1), rs[i])))])

\* slip: the signal line smooths the prices instead of the MACD line
calculate_macd_signal_of_data(data, fast_period, slow_period, signal_period) ==
    LET fast_ema == ewm_mean(data, AlphaSpan(fast_period))
        slow_ema == ewm_mean(data, AlphaSpan(slow_period))
        macd_line == SSub(fast_ema, slow_ema)
        signal_line == ewm_mean(data, AlphaSpan(signal_period))
        macd_histogram == SSub(macd_line, signal_line)
    IN  <<macd_line, signal_line, macd_histogram>>

calculate_macd(data, fast_period, slow_period, signal_period) ==
    LET fast_ema == ewm_mean(data, AlphaSpan(fast_period))
        slow_ema == ewm_mean(data, AlphaSpan(slow_period))
        macd_line == SSub(fast_ema, slow_ema)
        signal_line == ewm_mean(macd_line, AlphaSpan(signal_period))
        macd_histogram == SSub(macd_line, signal_line)
    IN  <<macd_line, signal_line, macd_histogram>>

\* slip: the two bands exchanged
calculate_bollinger_bands_swapped(data, window, num_std) ==
    LET middle_band == rolling_mean(data, window)
        std_dev == rolling_std(data, window)
        upper_band == SSub(middle_band, SScale(std_dev, Num(num_std)))
        lower_band == SAdd(middle_band, SScale(std_dev, Num(num_std)))
    IN  <<upper_band, middle_band, lower_band>>

calculate_bollinger_bands(data, window, num_std) ==
    LET middle_band == rolling_mean(data, window)
        std_dev == rolling_std(data, window)
        upper_band == SAdd(middle_band, SScale(std_dev, Num(num_std)))
        lower_band == SSub(middle_band, SScale(std_dev, Num(num_std)))
    IN  <<upper_band, middle_band, lower_band>>

\* the columns of a DataFrame of bars
Col(df, c) == Series([i \in 1..Len(df) |-> Num(df[i][c])])

typical_price(df) ==
    Series([i \in 1..Len(df) |->
        FDiv(FAdd(FAdd(Num(df[i].High), Num(df[i].Low)), Num(df[i].Close)), Num(3))])

\* slip: the products are not accumulated
vwap_num_nocum(df) == SMul(typical_price(df), Col(df, "Volume"))

\* the two running sums of calculate_vwap
vwap_num(df) == cumsum(SMul(typical_price(df), Col(df, "Volume")))

vwap_den(df) == cumsum(Col(df, "Volume"))

\* slip: the volume in the denominator is not accumulated
calculate_vwap_nocum_den(df) == SDiv(vwap_num(df), Col(df, "Volume"))

\* slip: the denominator is the total volume, df['Volume'].sum()
calculate_vwap_total_den(df) ==
    LET total == IF Len(df) = 0 THEN Zero ELSE CumTotal(Col(df, "Volume"), Len(df))[Len(df)]
    IN  SScale(vwap_num(df), FDiv(Num(1), total))

calculate_vwap(df) == SDiv(vwap_num(df), vwap_den(df))

\* slip: `not (sma[i-1] > vwap[i-1])` in place of `<=`, which is True for a NaN
cross_buy_notgt(sma, vwap, close) ==
    Series([i \in 1..Len(close) |->
        IF i >= 2 /\ ~FGt(sma[i - 1], vwap[i - 1]) /\ FGt(sma[i], vwap[i])
        THEN close[i] ELSE NaN])

\* slip: the previous position must be strictly below
cross_buy_strict(sma, vwap, close) ==
    Series([i \in 1..Len(close) |->
        IF i >= 2 /\ FLt(sma[i - 1], vwap[i - 1]) /\ FGt(sma[i], vwap[i])
        THEN close[i] ELSE NaN])

\* the detection loop of calculate_vwap_crossover over the two computed series
cross_buy(sma, vwap, close) ==
    Series([i \in 1..Len(close) |->
        IF i >= 2 /\ FLe(sma[i - 1], vwap[i - 1]) /\ FGt(sma[i], vwap[i])
        THEN close[i] ELSE NaN])

\* slip: the previous-position test copied from the buy branch (`<=` left in place)
cross_sell_prev_le(sma, vwap, close) ==
    Series([i \in 1..Len(close) |->
        IF i >= 2 /\ FLe(sma[i - 1], vwap[i - 1]) /\ FLt(sma[i], vwap[i])
        THEN close[i] ELSE NaN])

\* slip: range(len(df)), so that position 0 is compared with iloc[-1], the last position
cross_sell_from0(sma, vwap, close) ==
    Series([i \in 1..Len(close) |->
        LET prev == IF i = 1 THEN Len(close) ELSE i - 1
        IN  IF FGe(sma[prev], vwap[prev]) /\ FLt(sma[i], vwap[i])
            THEN close[i] ELSE NaN])

cross_sell(sma, vwap, close) ==
    Series([i \in 1..Len(close) |->
        IF i >= 2 /\ FGe(sma[i - 1], vwap[i - 1]) /\ FLt(sma[i], vwap[i])
        THEN close[i] ELSE NaN])

calculate_vwap_crossover(df, sma_period) ==
    LET sma == calculate_sma(Col(df, "Close"), sma_period)
        vwap == calculate_vwap(df)
    IN  <<cross_buy(sma, vwap, Col(df, "Close")), cross_sell(sma, vwap, Col(df, "Close"))>>

(* ---- the copy of the crossover engine in src/app.py ---- *)
\* slip: shift(1, fill_value=0), so that position 0 is compared with 0
shift1_fill0(s) == Series([i \in 1..Len(s) |-> IF i = 1 THEN Zero ELSE s[i - 1]])

\* Series.shift(1): position 0 is NaN, position i is s[i-1]
shift1(s) == Series([i \in 1..Len(s) |-> IF i = 1 THEN NaN ELSE s[i - 1]])

\* pd.Series(index=df.index, data=None) with the values of close assigned under the mask
masked(close, mask) == Series([i \in 1..Len(close) |-> IF mask[i] THEN close[i] ELSE NaN])

app_calculate_vwap_crossover(df, sma_period) ==
    LET vwap == calculate_vwap(df)
        sma == calculate_sma(Col(df, "Close"), sma_period)
        prev_sma == shift1(sma)
        prev_vwap == shift1(vwap)
        buy_signal == [i \in 1..Len(df) |-> FGt(sma[i], vwap[i]) /\ FLe(prev_sma[i], prev_vwap[i])]
        sell_signal == [i \in 1..Len(df) |-> FLt(sma[i], vwap[i]) /\ FGe(prev_sma[i], prev_vwap[i])]
    IN  <<masked(Col(df, "Close"), buy_signal), masked(Col(df, "Close"), sell_signal)>>

\* Series.where(cond, 0): the value where cond is True, 0 where it is False,
\* which includes the positions where the value is NaN
where_gt0(s) == Series([i \in 1..Len(s) |-> IF FGt(s[i], Zero) THEN s[i] ELSE Zero])

where_lt0(s) == Series([i \in 1..Len(s) |-> IF FLt(s[i], Zero) THEN s[i] ELSE Zero])

\* calculate_rsi of src/app.py: plain rolling means of the gains and losses
app_calculate_rsi(data, window) ==
    LET delta == diff(data)
        gain == rolling_mean(where_gt0(delta), window)
        loss == rolling_mean(SScale(where_lt0(delta), Num(-1)), window)
        rs == SDiv(gain, loss)
    IN  Series([i \in 1..Len(data) |->
            FSub(Num(100), FDiv(Num(100), FAdd(Num(1), rs[i])))])

(* ---- the engines as Python calls: a value returned or an exception raised ---- *)
Returned(v) == [raised |-> "None", value |-> v]

Raise(e) == [raised |-> e, value |-> <<>>]

\* the engines validate nothing themselves; pandas validates the argument of
\* rolling() and of ewm() before it computes anything:
\* rolling(window) raises ValueError for a negative window and accepts 0
rolling_valid(window) == window >= 0

\* ewm(span=...) raises ValueError unless span >= 1
ewm_span_valid(span) == span >= 1

\* ewm(com=...) raises ValueError unless com >= 0
ewm_com_valid(com) == com >= 0

call_sma(data, window) ==
    IF rolling_valid(window) THEN Returned(<<calculate_sma(data, window)>>)
    ELSE Raise("ValueError")

\* slip: the average is seeded with data.iloc[0], an IndexError on an empty series
call_ema_iloc0(data, window) ==
    IF ~ewm_span_valid(window) THEN Raise("ValueError")
    ELSE IF Len(data) = 0 THEN Raise("IndexError")
    ELSE Returned(<<calculate_ema(data, window)>>)

call_ema(data, window) ==
    IF ewm_span_valid(window) THEN Returned(<<calculate_ema(data, window)>>)
    ELSE Raise("ValueError")

\* ewm(com=window - 1)
call_rsi(data, window) ==
    IF ewm_com_valid(window - 1) THEN Returned(<<calculate_rsi(data, window)>>)
    ELSE Raise("ValueError")

call_macd(data, fast_period, slow_period, signal_period) ==
    IF ewm_span_valid(fast_period) /\ ewm_span_valid(slow_period)
          /\ ewm_span_valid(signal_period)
    THEN Returned(calculate_macd(data, fast_period, slow_period, signal_period))
    ELSE Raise("ValueError")

call_bollinger_bands(data, window, num_std) ==
    IF rolling_valid(window) THEN Returned(calculate_bollinger_bands(data, window, num_std))
    ELSE Raise("ValueError")

call_vwap(df) == Returned(<<calculate_vwap(df)>>)

call_vwap_crossover(df, sma_period) ==
    IF rolling_valid(sma_period) THEN Returned(calculate_vwap_crossover(df, sma_period))
    ELSE Raise("ValueError")

call_app_vwap_crossover(df, sma_period) ==
    IF rolling_valid(sma_period) THEN Returned(app_calculate_vwap_crossover(df, sma_period))
    ELSE Raise("ValueError")

(* ---- update_chart, the chart callback of src/app.py ---- *)
\* fetch_stock_data: the DataFrame of the response, or the exception that
\* leaves it.  An invalid structure raises ValueError; a missing field of the
\* result raises KeyError; when http.get itself fails, `response` is unbound
\* in the except block and hasattr(response, 'text') raises UnboundLocalError.
fetch_stock_data(response) ==
    CASE response.kind = "ok" -> Returned(response.bars)
      [] response.kind = "invalid_structure" -> Raise("ValueError")
      [] response.kind = "missing_field" -> Raise("KeyError")
      [] response.kind = "network_error" -> Raise("UnboundLocalError")

\* a go.Scatter / go.Candlestick: its name, its x positions and its y values
Trace(name, x, y) == [name |-> name, x |-> x, y |-> y]

Line(name, y) == Trace(name, [i \in 1..Len(y) |-> i] \o <<>>, y)

\* s.dropna().index: the positions that hold a value
RECURSIVE notna_index(_, _)
notna_index(s, i) ==
    IF i = 0 THEN <<>>
    ELSE LET before == notna_index(s, i - 1)
         IN  IF IsNaN(s[i]) THEN before ELSE Append(before, i)

\* the markers of a signal series: x and y of s.dropna()
Markers(name, s) ==
    LET x == notna_index(s, Len(s))
    IN  Trace(name, x, [k \in 1..Len(x) |-> s[x[k]]] \o <<>>)

\* `a, b = t`: ValueError unless t has exactly two items
unpack2(t) == IF Len(t) = 2 THEN Returned(t) ELSE Raise("ValueError")

\* what one pass of the loop does for a key: the engines it calls and the
\* traces it appends, or the exception it raises
Appended(engines, traces) == [raised |-> "None", engines |-> engines, value |-> traces]

Raised(engines, e) == [raised |-> e, engines |-> engines, value |-> <<>>]

\* the two Scatter traces of `macd, signal = calculate_macd(df['Close'])`
macd_traces(unpacked) ==
    IF unpacked.raised # "None" THEN Raised(<<"calculate_macd">>, unpacked.raised)
    ELSE Appended(<<"calculate_macd">>,
                  <<Line("MACD", unpacked.value[1]), Line("Signal", unpacked.value[2])>>)

\* the three Scatter traces of `upper, middle, lower = calculate_bollinger_bands(df['Close'])`
bbands_traces(bands) ==
    Appended(<<"calculate_bollinger_bands">>,
             <<Line("BB Upper", bands[1]), Line("BB Middle", bands[2]),
               Line("BB Lower", bands[3])>>)

\* the traces of the key 'vwap': the VWAP, the SMA 9 and the crossover markers
vwap_traces(vwap, sma9, signals) ==
    Appended(<<"calculate_vwap", "calculate_sma", "calculate_vwap_crossover">>,
             <<Line("VWAP", vwap), Line("SMA 9", sma9),
               Markers("Buy Signal", signals[1]), Markers("Sell Signal", signals[2])>>)

\* the branch of the loop body a key of the checklist takes
option_traces(df, indicator) ==
    CASE indicator = "sma50" ->
           Appended(<<"calculate_sma">>,
                    <<Line("SMA 50", calculate_sma(Col(df, "Close"), Sma50Window))>>)
      [] indicator = "sma200" ->
           Appended(<<"calculate_sma">>,
                    <<Line("SMA 200", calculate_sma(Col(df, "Close"), Sma200Window))>>)
      [] indicator = "ema50" ->
           Appended(<<"calculate_ema">>,
                    <<Line("EMA 50", calculate_ema(Col(df, "Close"), Ema50Window))>>)
      [] indicator = "ema200" ->
           Appended(<<"calculate_ema">>,
                    <<Line("EMA 200", calculate_ema(Col(df, "Close"), Ema200Window))>>)
      [] indicator = "rsi" ->
           Appended(<<"calculate_rsi">>,
                    <<Line("RSI", app_calculate_rsi(Col(df, "Close"), RsiWindow))>>)
      [] indicator = "macd" ->
           macd_traces(unpack2(calculate_macd(Col(df, "Close"), MacdFast, MacdSlow, MacdSignal)))
      [] indicator = "bbands" ->
           bbands_traces(calculate_bollinger_bands(Col(df, "Close"), BbWindow, BbNumStd))
      [] indicator = "vwap" ->
           vwap_traces(calculate_vwap(df), calculate_sma(Col(df, "Close"), Sma9Window),
                       app_calculate_vwap_crossover(df, CrossSmaPeriod))

\* the options of the indicators checklist
Keys == {"sma50", "sma200", "ema50", "ema200", "rsi", "macd", "bbands", "vwap"}

\* slip: an else branch that rejects a key it does not know
indicator_traces_strict(df, indicator) ==
    IF indicator \in Keys THEN option_traces(df, indicator) ELSE Raised(<<>>, "KeyError")

\* the chain of `if indicator == ...` in the loop of update_chart: a key that
\* matches none of them appends nothing
indicator_traces(df, indicator) ==
    IF indicator \in Keys THEN option_traces(df, indicator) ELSE Appended(<<>>, <<>>)

\* the loop goes on to the next key unless an exception has ended it
next_pass(before, this) ==
    IF before.raised # "None" THEN before
    ELSE [raised |-> this.raised,
          engines |-> before.engines \o this.engines,
          value |-> before.value \o this.value]

\* `for indicator in indicators`: the traces list and the engines called
\* after the first k keys
RECURSIVE add_indicators(_, _, _)
add_indicators(df, indicators, k) ==
    IF k = 0 THEN Appended(<<>>, <<Line("Price", Col(df, "Close"))>>)
    ELSE next_pass(add_indicators(df, indicators, k - 1), indicator_traces(df, indicators[k]))

Has(indicators, key) == \E k \in 1..Len(indicators) : indicators[k] = key

\* the row of the figure a trace is added to: with 'rsi' or 'macd' among the
\* keys the figure has subplots, RSI in row 2 and MACD below the RSI
trace_row(indicators, name) ==
    IF ~(Has(indicators, "rsi") \/ Has(indicators, "macd")) THEN 1
    ELSE IF name = "RSI" THEN 2
    ELSE IF name \in {"MACD", "Signal"} THEN (IF Has(indicators, "rsi") THEN 3 ELSE 2)
    ELSE 1

Figure(title, indicators, traces) ==
    [title |-> title,
     traces |-> [k \in 1..Len(traces) |->
                    [trace |-> traces[k], row |-> trace_row(indicators, traces[k].name)]] \o <<>>]

\* the figure of the traces, unless the loop raised
chart(done, indicators) ==
    IF done.raised # "None" THEN done
    ELSE [raised |-> "None", engines |-> done.engines,
          value |-> Figure("Stock Analysis", indicators, done.value)]

\* the figure update_chart returns when the fetch raised
error_figure == [raised |-> "None", engines |-> <<>>, value |-> Figure("Error", <<>>, <<>>)]

\* slip: `except ValueError`, which lets every other exception of the fetch through
update_chart_except_valueerror(response, indicators) ==
    IF fetch_stock_data(response).raised = "ValueError" THEN error_figure
    ELSE IF fetch_stock_data(response).raised # "None"
    THEN Raised(<<>>, fetch_stock_data(response).raised)
    ELSE chart(add_indicators(fetch_stock_data(response).value, indicators, Len(indicators)),
               indicators)

\* update_chart: the figure returned, or the exception that leaves the
\* callback, and the engines called on the way
update_chart(response, indicators) ==
    IF fetch_stock_data(response).raised # "None" THEN error_figure
    ELSE chart(add_indicators(fetch_stock_data(response).value, indicators, Len(indicators)),
               indicators)

(* ---- the state machine ---- *)
VARIABLES
    data,   \* the close series handed to a one-series engine
    df,     \* the bar series (DataFrame) handed to a bar engine
    op,     \* the engine that has been called, "none" before the call
    args,   \* its parameters
    out     \* the tuple of Series it returned

vars == <<data, df, op, args, out>>

\* the closing prices of a close series
Prices == {1, 2, 3}

\* the prices and volumes of a bar: a price may be negative, a volume may be 0
BarPrices == {-1, 1}

Volumes == {0, 1, 2}

Windows == 1..MaxWindow

RECURSIVE SeqsUpTo(_, _)
SeqsUpTo(S, n) ==
    IF n = 0 THEN {<<>>}
    ELSE LET shorter == SeqsUpTo(S, n - 1)
         IN  shorter \cup {Append(q, x) : q \in {t \in shorter : Len(t) = n - 1}, x \in S}

\* a bar: finite prices with Low <= Close <= High, and Volume >= 0; a bar
\* without trades is flat
Bar ==
    {b \in [High : BarPrices, Low : BarPrices, Close : BarPrices, Volume : Volumes] :
        /\ b.Low <= b.Close /\ b.Close <= b.High
        /\ b.Volume = 0 => b.High = b.Low}

\* one-series engines: any finite close series
Init ==
    /\ data \in SeqsUpTo({Num(x) : x \in Prices}, MaxLen)
    /\ df = <<>>
    /\ op = "none"
    /\ args = <<>>
    /\ out = <<>>

\* bar engines: any bar series
InitBars ==
    /\ data = <<>>
    /\ df \in SeqsUpTo(Bar, MaxBars)
    /\ op = "none"
    /\ args = <<>>
    /\ out = <<>>

Call(name, a, result) ==
    /\ op = "none"
    /\ op' = name
    /\ args' = a
    /\ out' = result
    /\ UNCHANGED <<data, df>>

CallSma == \E w \in Windows : Call("sma", <<w>>, <<calculate_sma(data, w)>>)

CallEma == \E w \in Windows : Call("ema", <<w>>, <<calculate_ema(data, w)>>)

CallRsi == \E w \in Windows : Call("rsi", <<w>>, <<calculate_rsi(data, w)>>)

CallMacd ==
    \E f \in Windows, s \in Windows, g \in Windows :
        Call("macd", <<f, s, g>>, calculate_macd(data, f, s, g))

CallBollinger ==
    \E w \in Windows, k \in (-1)..MaxK :
        Call("bbands", <<w, k>>, calculate_bollinger_bands(data, w, k))

CallVwap == Call("vwap", <<>>, <<calculate_vwap(df)>>)

CallCrossover ==
    \E p \in Windows : Call("crossover", <<p>>, calculate_vwap_crossover(df, p))

CallCrossoverApp ==
    \E p \in Windows : Call("crossover_app", <<p>>, app_calculate_vwap_crossover(df, p))

Next == CallSma \/ CallEma \/ CallRsi \/ CallMacd \/ CallBollinger

Spec == Init /\ [][Next]_vars

NextBars == CallVwap \/ CallCrossover \/ CallCrossoverApp

SpecBars == InitBars /\ [][NextBars]_vars

(* ---- the engines called with any parameter, on the Close column of a bar series ---- *)
\* windows, spans and periods as a caller may pass them: negative, 0, positive
AnyWindows == (-1)..MaxWindow

\* bars of a single price, traded once or not at all
FlatBar == {b \in Bar : b.High = b.Low /\ b.Volume <= 1}

InitCalls ==
    /\ df \in SeqsUpTo(FlatBar, MaxBars)
    /\ data = Col(df, "Close")
    /\ op = "none"
    /\ args = <<>>
    /\ out = <<>>

TrySma == \E w \in AnyWindows : Call("sma", <<w>>, call_sma(data, w))

TryEma == \E w \in AnyWindows : Call("ema", <<w>>, call_ema(data, w))

TryRsi == \E w \in AnyWindows : Call("rsi", <<w>>, call_rsi(data, w))

TryMacd ==
    \E f \in AnyWindows, s \in Windows, g \in Windows :
        Call("macd", <<f, s, g>>, call_macd(data, f, s, g))

TryBollinger ==
    \E w \in AnyWindows, k \in 0..MaxK :
        Call("bbands", <<w, k>>, call_bollinger_bands(data, w, k))

TryVwap == Call("vwap", <<>>, call_vwap(df))

TryCrossover ==
    \E p \in AnyWindows : Call("crossover", <<p>>, call_vwap_crossover(df, p))

TryCrossoverApp ==
    \E p \in AnyWindows : Call("crossover_app", <<p>>, call_app_vwap_crossover(df, p))

NextCalls ==
    \/ TrySma \/ TryEma \/ TryRsi \/ TryMacd \/ TryBollinger
    \/ TryVwap \/ TryCrossover \/ TryCrossoverApp

SpecCalls == InitCalls /\ [][NextCalls]_vars

(* ---- the crossover detector on longer series ---- *)
\* bars traded once or not at all
ThinBar == {b \in Bar : b.Volume <= 1}

InitCross ==
    /\ data = <<>>
    /\ df \in SeqsUpTo(ThinBar, MaxCrossBars)
    /\ op = "none"
    /\ args = <<>>
    /\ out = <<>>

NextCross == CallCrossover

SpecCross == InitCross /\ [][NextCross]_vars

(* ---- the chart callback ---- *)
\* the keys a caller may send: the options and one that is none of them
AnyKeys == Keys \cup {"obv"}

\* the bars of a response: an untraded day, and a traded day at either price
ChartBar == {b \in FlatBar : b.Volume = 1 \/ b.Close = 1}

\* what the request to the Yahoo endpoint may end in
Responses ==
    {[kind |-> "ok", bars |-> b] : b \in SeqsUpTo(ChartBar, MaxChartBars)}
        \cup {[kind |-> k, bars |-> <<>>] :
                 k \in {"invalid_structure", "missing_field", "network_error"}}

\* nothing is fetched before the first callback
InitChart ==
    /\ data = <<>>
    /\ df = <<>>
    /\ op = "none"
    /\ args = <<>>
    /\ out = <<>>

UpdateChart ==
    /\ op = "none"
    /\ \E response \in Responses, indicators \in SeqsUpTo(AnyKeys, MaxKeys) :
          /\ op' = "update_chart"
          /\ args' = <<response, indicators>>
          /\ df' = response.bars
          /\ out' = update_chart(response, indicators)
          /\ UNCHANGED data

NextChart == UpdateChart

SpecChart == InitChart /\ [][NextChart]_vars

(* ---- the incremental mode: one bar at a time, O(1) state carried forward ---- *)
\* the carried state: the last EMA value; the last close with the average
\* gain and average loss; the running numerator and denominator sums.  NaN
\* stands for "no value yet".
NoState ==
    [ema |-> NaN, close |-> NaN, avg_gain |-> NaN, avg_loss |-> NaN,
     num |-> Zero, den |-> Zero]

\* alpha * x + (1 - alpha) * prev, seeded with x
Smooth(prev, x, alpha) ==
    IF IsNaN(prev) THEN x ELSE FAdd(FMul(alpha, x), FMul(FSub(Num(1), alpha), prev))

\* the state after the bar b, from the state before it and b alone
StepState(st, b, window) ==
    LET c == Num(b.Close)
        delta == FSub(c, st.close)
        gain == IF FGt(delta, Zero) THEN delta ELSE Zero
        loss == IF FLt(delta, Zero) THEN FNeg(delta) ELSE Zero
        tp == FDiv(FAdd(FAdd(Num(b.High), Num(b.Low)), c), Num(3))
    IN  [ema |-> Smooth(st.ema, c, AlphaSpan(window)),
         close |-> c,
         avg_gain |-> IF IsNaN(st.close) THEN NaN
                      ELSE Smooth(st.avg_gain, gain, FDiv(Num(1), Num(window))),
         avg_loss |-> IF IsNaN(st.close) THEN NaN
                      ELSE Smooth(st.avg_loss, loss, FDiv(Num(1), Num(window))),
         num |-> FAdd(st.num, FMul(tp, Num(b.Volume))),
         den |-> FAdd(st.den, Num(b.Volume))]

\* the three values the state yields for its last bar
StateRsi(st) ==
    FSub(Num(100), FDiv(Num(100), FAdd(Num(1), FDiv(st.avg_gain, st.avg_loss))))

StateVwap(st) == FDiv(st.num, st.den)

InitIncremental ==
    /\ data = <<>>
    /\ df = <<>>
    /\ op = "incremental"
    /\ args \in {<<w>> : w \in Windows}
    /\ out = [state |-> NoState, ema |-> <<>>, rsi |-> <<>>, vwap |-> <<>>]

AppendBar ==
    /\ op = "incremental"
    /\ Len(df) < MaxBars
    /\ \E b \in Bar :
          /\ df' = Append(df, b)
          /\ data' = Append(data, Num(b.Close))
          /\ LET st == StepState(out.state, b, args[1])
             IN  out' = [state |-> st,
                         ema |-> Append(out.ema, st.ema),
                         rsi |-> Append(out.rsi, StateRsi(st)),
                         vwap |-> Append(out.vwap, StateVwap(st))]
          /\ UNCHANGED <<op, args>>

NextIncremental == AppendBar

SpecIncremental == InitIncremental /\ [][NextIncremental]_vars

(* ---- reference definitions the results are compared with ---- *)
\* s[lo] + ... + s[hi]
RECURSIVE SumRange(_, _, _)
SumRange(s, lo, hi) == IF hi < lo THEN Zero ELSE FAdd(SumRange(s, lo, hi - 1), s[hi])

\* arithmetic mean of the w values of s ending at i
WindowMean(s, i, w) == FDiv(SumRange(s, i - w + 1, i), Num(w))

\* sample variance (n - 1 denominator) of the w values of s ending at i
RECURSIVE SumSqDev(_, _, _, _)
SumSqDev(s, lo, hi, m) ==
    IF hi < lo THEN Zero
    ELSE FAdd(SumSqDev(s, lo, hi - 1, m), FMul(FSub(s[hi], m), FSub(s[hi], m)))

WindowVar(s, i, w) == FDiv(SumSqDev(s, i - w + 1, i, WindowMean(s, i, w)), Num(w - 1))

\* the sequence ema[1] = s[1], ema[i] = alpha * s[i] + (1 - alpha) * ema[i-1], up to i
RECURSIVE RefEma(_, _, _)
RefEma(s, alpha, i) ==
    IF i = 0 THEN <<>>
    ELSE IF i = 1 THEN <<s[1]>>
    ELSE LET prev == RefEma(s, alpha, i - 1)
         IN  Append(prev, FAdd(FMul(alpha, s[i]), FMul(FSub(Num(1), alpha), prev[i - 1])))

Nums(q) == [i \in 1..Len(q) |-> Num(q[i])]

(* ---- C1 ---- *)
\* C1: calculate_sma(s, w) has len(s) positions; position i is undefined when
\* i < w-1 and otherwise is the arithmetic mean of s[i-w+1..i]; for
\* close = [10,10,10,12,11,9,9,9] and w = 3 it starts undefined, undefined,
\* 10, 32/3, 11.
ThmC1_SmaWindowMean ==
    op = "sma" =>
        /\ Len(out[1]) = Len(data)
        /\ \A i \in 1..Len(data) :
              out[1][i] = IF i < args[1] THEN NaN ELSE WindowMean(data, i, args[1])
        /\ SubSeq(calculate_sma(Nums(<<10, 10, 10, 12, 11, 9, 9, 9>>), 3), 1, 5)
              = <<NaN, NaN, Num(10), <<32, 3>>, Num(11)>>

WitC1_SmaPrefixAndMean ==
    /\ op = "sma" /\ args[1] = 2 /\ Len(data) = MaxLen
    /\ out[1][1] = NaN
    /\ out[1][2] # out[1][3] /\ out[1][3] # out[1][4]
    /\ IsFinite(out[1][2]) /\ out[1][2][2] = 2

(* ---- C2 ---- *)
\* C2: for a non-empty series, calculate_ema(s, span) has ema[0] = s[0] and
\* ema[i] = alpha*s[i] + (1-alpha)*ema[i-1] with alpha = 2/(span+1), and no
\* position is undefined.
ThmC2_EmaRecursion ==
    (op = "ema" /\ Len(data) > 0) =>
        LET alpha == Norm(2, args[1] + 1)
        IN  /\ Len(out[1]) = Len(data)
            /\ out[1][1] = data[1]
            /\ \A i \in 2..Len(data) :
                  out[1][i] = FAdd(FMul(alpha, data[i]),
                                   FMul(FSub(Num(1), alpha), out[1][i - 1]))
            /\ \A i \in 1..Len(data) : IsFinite(out[1][i])

WitC2_EmaSmoothed ==
    /\ op = "ema" /\ args[1] = 2 /\ Len(data) >= 3
    /\ out[1][1] = data[1]
    /\ out[1][2] # data[2] /\ out[1][3] # data[3] /\ out[1][3] # out[1][2]

(* ---- C3 ---- *)
\* C3: calculate_macd returns macd_line = EMA(s, fast) - EMA(s, slow),
\* signal_line = EMA(macd_line, signal) and, at every index,
\* histogram = macd_line - signal_line exactly.
ThmC3_MacdLines ==
    op = "macd" =>
        LET fast == RefEma(data, Norm(2, args[1] + 1), Len(data))
            slow == RefEma(data, Norm(2, args[2] + 1), Len(data))
            signal == RefEma(out[1], Norm(2, args[3] + 1), Len(data))
        IN  /\ Len(out[1]) = Len(data) /\ Len(out[2]) = Len(data) /\ Len(out[3]) = Len(data)
            /\ \A i \in 1..Len(data) :
                  /\ FAdd(out[1][i], slow[i]) = fast[i]
                  /\ out[2][i] = signal[i]
                  /\ FAdd(out[3][i], out[2][i]) = out[1][i]

WitC3_MacdNonzeroHistogram ==
    /\ op = "macd" /\ args[1] < args[2] /\ args[3] > 1 /\ Len(data) >= 3
    /\ \E i \in 1..Len(data) : out[3][i] # Zero /\ out[2][i] # Zero

(* ---- C4 ---- *)
\* C4: with multiplier k >= 0, wherever the three Bollinger bands are all
\* defined, upper >= middle >= lower; middle is SMA(s, w), upper is
\* middle + k*std and lower is middle - k*std, std being the sample standard
\* deviation of the window.
ThmC4_BollingerOrder ==
    op = "bbands" =>
        LET w == args[1]
            k == Num(args[2])
        IN  \A i \in 1..Len(data) :
              /\ out[2][i] = IF i < w THEN NaN ELSE WindowMean(data, i, w)
              /\ (i >= w /\ w >= 2) =>
                    /\ out[1][i] = FAdd(out[2][i], FMul(k, FSqrt(WindowVar(data, i, w))))
                    /\ out[3][i] = FSub(out[2][i], FMul(k, FSqrt(WindowVar(data, i, w))))
              /\ (args[2] >= 0 /\ ~IsNaN(out[1][i]) /\ ~IsNaN(out[2][i]) /\ ~IsNaN(out[3][i])) =>
                    FGe(out[1][i], out[2][i]) /\ FGe(out[2][i], out[3][i])

WitC4_BollingerStrictBands ==
    /\ op = "bbands" /\ args[1] = 2 /\ args[2] = 2
    /\ \E i \in 1..Len(data) :
          /\ IsFinite(out[1][i]) /\ IsFinite(out[2][i]) /\ IsFinite(out[3][i])
          /\ FGt(out[1][i], out[2][i]) /\ FGt(out[2][i], out[3][i])

(* ---- C5, C6 ---- *)
\* gain[i] = max(delta[i], 0) and loss[i] = max(-delta[i], 0), delta[i] = s[i] - s[i-1]
RefGain(s, i) == LET d == FSub(s[i], s[i - 1]) IN IF FGt(d, Zero) THEN d ELSE Zero

RefLoss(s, i) == LET d == FSub(s[i - 1], s[i]) IN IF FGt(d, Zero) THEN d ELSE Zero

\* Wilder's average from position 1 on (element 2): seeded with the first
\* available value, then alpha * x[i] + (1 - alpha) * avg[i-1], alpha = 1/window
RECURSIVE RefAvgGain(_, _, _)
RefAvgGain(s, w, i) ==
    IF i = 2 THEN RefGain(s, 2)
    ELSE FAdd(FMul(Norm(1, w), RefGain(s, i)),
              FMul(Norm(w - 1, w), RefAvgGain(s, w, i - 1)))

RECURSIVE RefAvgLoss(_, _, _)
RefAvgLoss(s, w, i) ==
    IF i = 2 THEN RefLoss(s, 2)
    ELSE FAdd(FMul(Norm(1, w), RefLoss(s, i)),
              FMul(Norm(w - 1, w), RefAvgLoss(s, w, i - 1)))

StrictlyIncreasing(s) == \A i \in 2..Len(s) : FLt(s[i - 1], s[i])

\* C5: in calculate_rsi, at every index i >= 1, avg_loss = 0 with
\* avg_gain > 0 gives rsi = 100, avg_loss = 0 with avg_gain = 0 gives
\* rsi = 50, and a strictly increasing close series gives 100 at every i >= 1.
CexC5_RsiEdgePolicy ==
    op = "rsi" =>
        \A i \in 2..Len(data) :
            LET ag == roll_up(data, args[1])[i]
                al == roll_down(data, args[1])[i]
            IN  /\ (al = Zero /\ FGt(ag, Zero)) => out[1][i] = Num(100)
                /\ (al = Zero /\ ag = Zero) => out[1][i] = Num(50)
                /\ StrictlyIncreasing(data) => out[1][i] = Num(100)

\* C6: calculate_rsi follows Wilder's smoothing: rsi[0] is undefined and, for
\* i >= 1 with avg_loss[i] > 0, rsi[i] = 100 - 100/(1 + avg_gain[i]/avg_loss[i])
\* where avg_gain and avg_loss are the recursive averages of gain and loss
\* with alpha = 1/window seeded with their first available value.
ThmC6_RsiWilder ==
    op = "rsi" =>
        /\ Len(out[1]) = Len(data)
        /\ Len(data) > 0 => out[1][1] = NaN
        /\ \A i \in 2..Len(data) :
              LET ag == RefAvgGain(data, args[1], i)
                  al == RefAvgLoss(data, args[1], i)
              IN  FGt(al, Zero) =>
                     out[1][i] = FSub(Num(100), FDiv(Num(100), FAdd(Num(1), FDiv(ag, al))))

WitC6_RsiBetween ==
    /\ op = "rsi" /\ args[1] = 3 /\ Len(data) >= 4
    /\ out[1][1] = NaN
    /\ \E i \in 3..Len(data) :
          /\ FGt(RefAvgLoss(data, 3, i), Zero) /\ FGt(RefAvgGain(data, 3, i), Zero)
          /\ FGt(out[1][i], Zero) /\ FLt(out[1][i], Num(100))
          /\ out[1][i] # out[1][i - 1]

(* ---- C7, C8 ---- *)
\* typical price of a bar, and the plain sums over the bars 1..i
RefTp(b) == Norm(b.High + b.Low + b.Close, 3)

RECURSIVE RefPvSum(_, _)
RefPvSum(d, i) ==
    IF i = 0 THEN Zero ELSE FAdd(RefPvSum(d, i - 1), FMul(RefTp(d[i]), Num(d[i].Volume)))

RECURSIVE RefVolSum(_, _)
RefVolSum(d, i) == IF i = 0 THEN 0 ELSE RefVolSum(d, i - 1) + d[i].Volume

RefVwap(d, i) ==
    IF RefVolSum(d, i) = 0 THEN NaN ELSE FDiv(RefPvSum(d, i), Num(RefVolSum(d, i)))

\* C7: calculate_vwap gives at index i the sum over 0..i of
\* typical_price*volume divided by the sum over 0..i of volume, and undefined
\* where the cumulative volume is 0; an all-zero volume series is undefined
\* everywhere.
ThmC7_VwapCumulativeRatio ==
    op = "vwap" =>
        /\ Len(out[1]) = Len(df)
        /\ \A i \in 1..Len(df) : out[1][i] = RefVwap(df, i)
        /\ (\A j \in 1..Len(df) : df[j].Volume = 0) => \A i \in 1..Len(df) : out[1][i] = NaN

WitC7_VwapAfterZeroVolume ==
    /\ op = "vwap" /\ Len(df) = 3
    /\ df[1].Volume = 0 /\ out[1][1] = NaN
    /\ df[2].Volume > 0 /\ df[3].Volume > 0
    /\ IsFinite(out[1][2]) /\ IsFinite(out[1][3]) /\ out[1][2] # out[1][3]
    /\ out[1][3] # Num(df[3].Close) /\ out[1][2] # Num(df[2].Close)

\* C8 as stated: for bars of finite reals with volume >= 0, the numerator sum
\* and the denominator sum of VWAP are both non-decreasing in i.
CexC8_BothSumsMonotone ==
    op = "vwap" =>
        \A i \in 1..(Len(df) - 1) :
            /\ FLe(vwap_num(df)[i], vwap_num(df)[i + 1])
            /\ FLe(vwap_den(df)[i], vwap_den(df)[i + 1])

\* C8 (amended): with volume >= 0 the denominator sum is non-decreasing in i,
\* and the numerator sum is non-decreasing in i when no bar has a negative
\* typical price.
ThmC8_SumsMonotoneNonNegativePrice ==
    op = "vwap" =>
        \A i \in 1..(Len(df) - 1) :
            /\ FLe(vwap_den(df)[i], vwap_den(df)[i + 1])
            /\ (\A j \in 1..Len(df) : df[j].High + df[j].Low + df[j].Close >= 0)
                  => FLe(vwap_num(df)[i], vwap_num(df)[i + 1])

WitC8_SumsGrow ==
    /\ op = "vwap" /\ Len(df) = 3
    /\ \A j \in 1..3 : df[j].High + df[j].Low + df[j].Close >= 0
    /\ FLt(vwap_num(df)[1], vwap_num(df)[2]) /\ FLt(vwap_den(df)[1], vwap_den(df)[2])
    /\ vwap_num(df)[2] = vwap_num(df)[3] /\ vwap_den(df)[2] = vwap_den(df)[3]

(* ---- C9, C10 ---- *)
RefSma(d, i, w) ==
    IF i < w THEN NaN ELSE WindowMean([j \in 1..Len(d) |-> Num(d[j].Close)], i, w)

RefBuy(d, i, w) ==
    /\ i >= 2
    /\ FLe(RefSma(d, i - 1, w), RefVwap(d, i - 1))
    /\ FGt(RefSma(d, i, w), RefVwap(d, i))

RefSell(d, i, w) ==
    /\ i >= 2
    /\ FGe(RefSma(d, i - 1, w), RefVwap(d, i - 1))
    /\ FLt(RefSma(d, i, w), RefVwap(d, i))

\* C9: with a = SMA(close, sma_period) and b = VWAP(bars),
\* calculate_vwap_crossover marks a buy at i >= 1 iff a[i-1] <= b[i-1] and
\* a[i] > b[i], a sell at i >= 1 iff a[i-1] >= b[i-1] and a[i] < b[i]; an
\* event records close[i] and every other index is empty; a = [1,2,3,4],
\* b = [4,3,2,1] gives one buy, at index 2, and no sell.
ThmC9_CrossoverRule ==
    op = "crossover" =>
        /\ Len(out[1]) = Len(df) /\ Len(out[2]) = Len(df)
        /\ \A i \in 1..Len(df) :
              /\ out[1][i] = IF RefBuy(df, i, args[1]) THEN Num(df[i].Close) ELSE NaN
              /\ out[2][i] = IF RefSell(df, i, args[1]) THEN Num(df[i].Close) ELSE NaN
        /\ LET a == Nums(<<1, 2, 3, 4>>)
               b == Nums(<<4, 3, 2, 1>>)
           IN  /\ cross_buy(a, b, a) = <<NaN, NaN, Num(3), NaN>>
               /\ cross_sell(a, b, a) = <<NaN, NaN, NaN, NaN>>

WitC9_BuyAfterTieThenSell ==
    /\ op = "crossover" /\ Len(df) = 3
    /\ RefSma(df, 1, args[1]) = RefVwap(df, 1) /\ IsFinite(RefVwap(df, 1))
    /\ out[1][2] = Num(df[2].Close) /\ out[2][2] = NaN
    /\ out[2][3] = Num(df[3].Close) /\ out[1][3] = NaN

\* C10: the crossover detector (both copies) never emits an event at index 0
\* and never emits a buy and a sell at the same index.
ThmC10_NoEventAtZeroNorBoth ==
    op \in {"crossover", "crossover_app"} =>
        /\ Len(df) > 0 => (out[1][1] = NaN /\ out[2][1] = NaN)
        /\ \A i \in 1..Len(df) : out[1][i] = NaN \/ out[2][i] = NaN

WitC10_EventsButNotAtZero ==
    /\ op \in {"crossover", "crossover_app"} /\ Len(df) = 3
    /\ FGt(RefSma(df, 1, args[1]), RefVwap(df, 1))
    /\ out[1][1] = NaN /\ out[2][1] = NaN
    /\ out[2][2] # NaN /\ out[1][3] # NaN


(* ---- C11 ---- *)
\* C11: in both copies of the crossover detector, if the SMA or the VWAP is
\* undefined at index i-1 or at index i, neither a buy nor a sell is emitted
\* at index i; in particular there is no event while the SMA is in its
\* undefined prefix or while the cumulative volume is 0.
ThmC11_NoEventOnUndefinedOperand ==
    op \in {"crossover", "crossover_app"} =>
        \A i \in 1..Len(df) :
            LET undef(j) == IsNaN(RefSma(df, j, args[1])) \/ IsNaN(RefVwap(df, j))
            IN  /\ (undef(i) \/ (i >= 2 /\ undef(i - 1))) =>
                      (out[1][i] = NaN /\ out[2][i] = NaN)
                /\ (i < args[1] \/ RefVolSum(df, i) = 0) =>
                      (out[1][i] = NaN /\ out[2][i] = NaN)

\* the SMA is above the VWAP at the first index where both are defined, the
\* index before being undefined (once by the SMA prefix, once by zero volume)
WitC11_AboveRightAfterUndefined ==
    /\ op \in {"crossover", "crossover_app"} /\ Len(df) = 3
    /\ \/ /\ args[1] = 2 /\ IsFinite(RefVwap(df, 1))
          /\ FGt(RefSma(df, 2, 2), RefVwap(df, 2))
          /\ out[1][2] = NaN /\ out[2][2] = NaN
       \/ /\ args[1] = 1 /\ df[1].Volume = 0
          /\ FGt(RefSma(df, 2, 1), RefVwap(df, 2))
          /\ out[1][2] = NaN /\ out[2][2] = NaN
    /\ out[2][3] # NaN


(* ---- C12, C13, C14 ---- *)
\* every parameter of the call is a window, span or period >= 1
\* (the second parameter of Bollinger Bands is the multiplier)
ValidParams ==
    IF op = "bbands" THEN args[1] >= 1 ELSE \A k \in 1..Len(args) : args[k] >= 1

AllUndefined(s) == \A i \in 1..Len(s) : s[i] = NaN

\* C12: SMA, EMA, RSI, Bollinger Bands and the crossover detector, called
\* with a window, span or period <= 0 (0 included), fail with an
\* invalid-parameter error and return no value series.
CexC12_NonPositiveRejected ==
    (op \in {"sma", "ema", "rsi", "bbands", "crossover", "crossover_app"} /\ args[1] <= 0) =>
        (out.raised = "ValueError" /\ out.value = <<>>)

\* C13: when the window is larger than the series, SMA and Bollinger Bands
\* raise nothing and return series of the input's length that are undefined
\* at every position; so is the dispatcher's SMA 200 on fewer than 200 bars.
ThmC13_WindowLargerThanSeries ==
    /\ (op \in {"sma", "bbands"} /\ args[1] >= 1 /\ args[1] > Len(data)) =>
          /\ out.raised = "None"
          /\ \A k \in 1..Len(out.value) :
                Len(out.value[k]) = Len(data) /\ AllUndefined(out.value[k])
    /\ op = "sma" =>
          LET sma_200 == call_sma(data, Sma200Window)
          IN  /\ sma_200.raised = "None"
              /\ Len(sma_200.value[1]) = Len(data) /\ AllUndefined(sma_200.value[1])

WitC13_ShortSeriesAllUndefined ==
    /\ op = "bbands" /\ Len(data) = 2 /\ args[1] = 3 /\ args[2] = 2
    /\ data[1] # data[2]
    /\ out.raised = "None" /\ Len(out.value) = 3
    /\ out.value[1] = <<NaN, NaN>> /\ out.value[2] = <<NaN, NaN>>
    /\ out.value[3] = <<NaN, NaN>>

\* C14: with valid parameters every engine (SMA, EMA, RSI, MACD, Bollinger
\* Bands, VWAP, crossover) returns a result and raises nothing, whatever the
\* bar series: empty, a single bar, constant prices, no volume at all.
ThmC14_EnginesTotal ==
    (op # "none" /\ ValidParams) =>
        /\ out.raised = "None"
        /\ Len(out.value) >= 1
        /\ \A k \in 1..Len(out.value) : Len(out.value[k]) = Len(df)

WitC14_NoVolumeConstantPrice ==
    /\ op = "crossover" /\ args[1] = 1 /\ Len(df) = 3
    /\ \A i \in 1..3 : df[i].Volume = 0 /\ df[i].Close = df[1].Close
    /\ out.raised = "None"
    /\ out.value = <<<<NaN, NaN, NaN>>, <<NaN, NaN, NaN>>>>


(* ---- C15, C16, C18, C19 ---- *)
\* the named series of a key: its engine at its default parameters
EngineLines(d, key) ==
    LET close == Col(d, "Close")
    IN  CASE key = "sma50" -> <<Line("SMA 50", calculate_sma(close, 50))>>
          [] key = "sma200" -> <<Line("SMA 200", calculate_sma(close, 200))>>
          [] key = "ema50" -> <<Line("EMA 50", calculate_ema(close, 50))>>
          [] key = "ema200" -> <<Line("EMA 200", calculate_ema(close, 200))>>
          [] key = "rsi" -> <<Line("RSI", app_calculate_rsi(close, 14))>>
          [] key = "macd" ->
               <<Line("MACD", calculate_macd(close, 12, 26, 9)[1]),
                 Line("Signal", calculate_macd(close, 12, 26, 9)[2])>>
          [] key = "bbands" ->
               <<Line("BB Upper", calculate_bollinger_bands(close, 20, 2)[1]),
                 Line("BB Middle", calculate_bollinger_bands(close, 20, 2)[2]),
                 Line("BB Lower", calculate_bollinger_bands(close, 20, 2)[3])>>
          [] key = "vwap" ->
               <<Line("VWAP", calculate_vwap(d)),
                 Line("SMA 9", calculate_sma(close, 9)),
                 Markers("Buy Signal", app_calculate_vwap_crossover(d, 9)[1]),
                 Markers("Sell Signal", app_calculate_vwap_crossover(d, 9)[2])>>

RECURSIVE AllEngineLines(_, _, _)
AllEngineLines(d, keys, k) ==
    IF k = 0 THEN <<>> ELSE AllEngineLines(d, keys, k - 1) \o EngineLines(d, keys[k])

\* the traces of a figure without the price chart
IndicatorTraces(fig) == [k \in 1..(Len(fig.traces) - 1) |-> fig.traces[k + 1].trace]

\* C15: for every fetched bar series and every list of keys of the
\* enumerated set, update_chart completes without raising and returns for each
\* key, in order, the named series of its engine at the default parameters;
\* for macd these are the line and the signal of the engine's three series.
CexC15_DispatchCompletes ==
    (op = "update_chart" /\ args[1].kind = "ok"
        /\ \A k \in 1..Len(args[2]) : args[2][k] \in Keys) =>
        /\ out.raised = "None"
        /\ IndicatorTraces(out.value) = AllEngineLines(df, args[2], Len(args[2]))

\* C16: for the key rsi the dispatcher returns Wilder's RSI of close with
\* window 14, the series of indicators.calc.calculate_rsi, at every index.
CexC16_DispatcherRsiIsWilder ==
    (op = "update_chart" /\ args[1].kind = "ok" /\ out.raised = "None") =>
        \A k \in 1..Len(out.value.traces) :
            out.value.traces[k].trace.name = "RSI" =>
                out.value.traces[k].trace.y = calculate_rsi(Col(df, "Close"), 14)

KnownKeys(indicators) == SelectSeq(indicators, LAMBDA key : key \in Keys)

\* C18: a key outside the enumerated set is ignored: update_chart raises
\* nothing for it and gives the same result (the same figure with the same
\* traces in the same order, from the same engine calls) as for the list
\* without the unknown keys.
ThmC18_UnknownKeysIgnored ==
    op = "update_chart" =>
        /\ out = update_chart(args[1], KnownKeys(args[2]))
        /\ ~Has(args[2], "macd") => out.raised = "None"

WitC18_UnknownKeyBetween ==
    /\ op = "update_chart" /\ args[1].kind = "ok" /\ Len(df) = 2
    /\ args[2] = <<"obv", "vwap">>
    /\ out.raised = "None"
    /\ Len(out.value.traces) = 5
    /\ out.value.traces[2].trace.name = "VWAP"
    /\ IsFinite(out.value.traces[2].trace.y[2])

\* C19: when fetch_stock_data raises, whatever the exception, update_chart
\* calls no indicator engine and returns an error figure instead of raising.
ThmC19_FetchFailureGivesErrorFigure ==
    (op = "update_chart" /\ args[1].kind # "ok") =>
        /\ fetch_stock_data(args[1]).raised # "None"
        /\ out.raised = "None"
        /\ out.engines = <<>>
        /\ out.value.title = "Error" /\ out.value.traces = <<>>

WitC19_NetworkErrorWithKeys ==
    /\ op = "update_chart" /\ args[1].kind = "network_error"
    /\ args[2] = <<"sma50", "macd">>
    /\ out.raised = "None" /\ out.engines = <<>> /\ out.value.title = "Error"


(* ---- C17 ---- *)
\* once a position of s is defined, every later position is defined
LeadingRunOnly(s) == \A i \in 1..Len(s) : \A j \in i..Len(s) : IsNaN(s[j]) => IsNaN(s[i])

\* C17: every value series an engine returns for n bars (SMA, EMA, RSI, each
\* MACD series, each Bollinger band, VWAP) has exactly n positions, and its
\* undefined positions form a leading run only.
CexC17_UndefinedIsLeadingRun ==
    (op \in {"sma", "ema", "rsi", "macd", "bbands", "vwap"} /\ ValidParams) =>
        /\ out.raised = "None"
        /\ \A k \in 1..Len(out.value) :
              Len(out.value[k]) = Len(df) /\ LeadingRunOnly(out.value[k])


(* ---- C20 ---- *)
Prefix(s, n) == SubSeq(s, 1, n)

ThmC21_CrossoverCopiesAgree ==
    /\ op = "crossover" => out = app_calculate_vwap_crossover(df, args[1])
    /\ op = "crossover_app" => out = calculate_vwap_crossover(df, args[1])

\* the SMA is above the VWAP at index 0, where neither copy marks anything,
\* and the series then has a sell and a buy, marked by the copy of app.py as
\* by the loop
WitC21_AppCopySameEvents ==
    /\ op = "crossover_app" /\ Len(df) = 3 /\ args[1] = 1
    /\ FGt(Num(df[1].Close), RefTp(df[1])) /\ df[1].Volume > 0
    /\ out[1][1] = NaN /\ out[2][1] = NaN
    /\ \E i \in 2..3 : out[1][i] # NaN
    /\ \E i \in 2..3 : out[2][i] # NaN
    /\ out = calculate_vwap_crossover(df, 1)


(* ---- C22 ---- *)
\* SMA and VWAP are equal at some index where both are defined
Touches(d, w) ==
    \E i \in 1..Len(d) :
        /\ ~IsNaN(RefSma(d, i, w)) /\ ~IsNaN(RefVwap(d, i))
        /\ RefSma(d, i, w) = RefVwap(d, i)

\* between any two events of one kind there is an event of the other kind
Alternates(events, others) ==
    \A i \in 1..Len(events) : \A j \in (i + 1)..Len(events) :
        (events[i] # NaN /\ events[j] # NaN) =>
            \E k \in (i + 1)..(j - 1) : others[k] # NaN

FlatBarAt(p, v) == [High |-> p, Low |-> p, Close |-> p, Volume |-> v]

\* C22: when SMA(close, sma_period) and VWAP differ at every index where
\* both are defined, there is a sell between any two buys and a buy between
\* any two sells; with a touch this is not guaranteed: on closes -1, 1, -1, 1
\* against a VWAP that stays at -1 (sma_period 1) the touch at index 2 is
\* followed by a second buy with no sell in between.
ThmC22_EventsAlternateWithoutTouch ==
    op = "crossover" =>
        /\ ~Touches(df, args[1]) =>
              (Alternates(out[1], out[2]) /\ Alternates(out[2], out[1]))
        /\ LET touching == <<FlatBarAt(-1, 1), FlatBarAt(1, 0), FlatBarAt(-1, 0), FlatBarAt(1, 0)>>
               events == calculate_vwap_crossover(touching, 1)
           IN  /\ Touches(touching, 1)
               /\ events[1] = <<NaN, Num(1), NaN, Num(1)>>
               /\ events[2] = <<NaN, NaN, NaN, NaN>>
               /\ ~Alternates(events[1], events[2])

\* SMA and VWAP never touch, and a buy, a sell and a second buy follow each other
WitC22_BuySellBuy ==
    /\ op = "crossover" /\ Len(df) = 4
    /\ ~Touches(df, args[1])
    /\ out[1][2] # NaN /\ out[2][3] # NaN /\ out[1][4] # NaN

====
